---- MODULE Spec2Model ----
(***************************************************************************)
(* Packaging-quantity calculator and serial-number generation of the      *)
(* label generator (src/utils/base_data_processor.py and the regular,     *)
(* split and nested data processors and templates).                       *)
(*                                                                         *)
(* Strings are sequences of one-character strings, so that formatting and *)
(* parsing are computed character by character as the code does.          *)
(* Python values: an optional argument is a record [kind, val]; the        *)
(* outcome of a call is Return(value) or Raise(exception name).           *)
(***************************************************************************)
EXTENDS Integers, Sequences, FiniteSets, TLC

VARIABLES
    pc,                         \* position of the caller driving the operations
    total_pieces,               \* data["总张数"]
    pieces_per_box,             \* params["张/盒"]
    boxes_per_small_box,        \* params["盒/小箱"] / params["盒/套"]
    small_boxes_per_large_box,  \* params["小箱/大箱"] / params["套/箱"], optional argument
    base_number,                \* data["开始号"], the start serial string
    processor,                  \* the processor / template whose operation ran last
    quantities,                 \* outcome of the last quantity computation
    num,                        \* box_num / container_num of the last label or serial
    label,                      \* the last serial / label produced
    pieces_sum,                 \* pieces printed on the labels of the current level so far
    args,                       \* arguments of a direct call of one operation
    result,                     \* outcome of that call
    instances,                  \* attributes of the module-level processor instances
    threads                     \* the invocations in progress, one per thread

vars == <<pc, total_pieces, pieces_per_box, boxes_per_small_box,
          small_boxes_per_large_box, base_number, processor, quantities,
          num, label, pieces_sum, args, result, instances, threads>>

(***************************************************************************)
(* Bounds of the model.                                                    *)
(***************************************************************************)
MaxPieces == 6
MaxPerBox == 4
MaxRatio == 3

(***************************************************************************)
(* Python values.                                                          *)
(***************************************************************************)
Omitted == [kind |-> "omitted", val |-> 0]
PyNone == [kind |-> "None", val |-> 0]
PyInt(v) == [kind |-> "int", val |-> v]

Return(v) == [raised |-> "", value |-> v]
Raise(e) == [raised |-> e, value |-> [none |-> 0]]
NoResult == [raised |-> "not called", value |-> [none |-> 0]]
NoArgs == [op |-> "none"]

\* the module-level instances regular_data_processor, split_box_data_processor
\* and nested_box_data_processor after construction: __init__ sets
\* template_type and nothing else
ModuleInstances ==
    [regular |-> [template_type |-> "regular"],
     split |-> [template_type |-> "split_box"],
     nested |-> [template_type |-> "nested_box"]]
NoThreads == [t \in {} |-> 0]
Returned(r) == r.raised = ""

Min(a, b) == IF a <= b THEN a ELSE b

\* Python's a % b on integers (the result has the sign of the divisor), b # 0
PyMod(a, b) == IF b > 0 THEN a % b ELSE -((-a) % (-b))

\* floor division written where the ceiling is meant
MathCeilDiv_Floor(a, b) == IF b > 0 THEN a \div b ELSE (-a) \div (-b)

\* math.ceil(a / b) for integers a, b with b # 0 (true division, then ceiling)
MathCeilDiv(a, b) == IF b > 0 THEN -((-a) \div b) ELSE -(a \div (-b))

(***************************************************************************)
(* Quantity computation.                                                   *)
(***************************************************************************)

\* the large boxes counted from the boxes instead of from the small boxes
BaseCalculateMultiLevelQuantities_SkipLevel(tp, ppb, bpsb, sbplb) ==
    IF ppb = 0 THEN Raise("ZeroDivisionError")
    ELSE LET total_boxes == MathCeilDiv(tp, ppb) IN
         IF sbplb.kind \in {"omitted", "None"}
         THEN IF bpsb = 0 THEN Raise("ZeroDivisionError")
              ELSE Return([total_pieces |-> tp,
                           total_boxes |-> total_boxes,
                           total_large_boxes |-> MathCeilDiv(total_boxes, bpsb),
                           pieces_per_box |-> ppb,
                           boxes_per_large_box |-> bpsb])
         ELSE IF bpsb = 0 \/ sbplb.val = 0 THEN Raise("ZeroDivisionError")
              ELSE LET total_small_boxes == MathCeilDiv(total_boxes, bpsb) IN
                   Return([total_pieces |-> tp,
                           total_boxes |-> total_boxes,
                           total_small_boxes |-> total_small_boxes,
                           total_large_boxes |->
                               MathCeilDiv(total_boxes, sbplb.val),
                           pieces_per_box |-> ppb,
                           boxes_per_small_box |-> bpsb,
                           small_boxes_per_large_box |-> sbplb.val])

\* BaseDataProcessor.calculate_multi_level_quantities; sbplb is the optional
\* fourth argument (default None)
BaseCalculateMultiLevelQuantities(tp, ppb, bpsb, sbplb) ==
    IF ppb = 0 THEN Raise("ZeroDivisionError")
    ELSE LET total_boxes == MathCeilDiv(tp, ppb) IN
         IF sbplb.kind \in {"omitted", "None"}
         THEN IF bpsb = 0 THEN Raise("ZeroDivisionError")
              ELSE Return([total_pieces |-> tp,
                           total_boxes |-> total_boxes,
                           total_large_boxes |-> MathCeilDiv(total_boxes, bpsb),
                           pieces_per_box |-> ppb,
                           boxes_per_large_box |-> bpsb])
         ELSE IF bpsb = 0 \/ sbplb.val = 0 THEN Raise("ZeroDivisionError")
              ELSE LET total_small_boxes == MathCeilDiv(total_boxes, bpsb) IN
                   Return([total_pieces |-> tp,
                           total_boxes |-> total_boxes,
                           total_small_boxes |-> total_small_boxes,
                           total_large_boxes |->
                               MathCeilDiv(total_small_boxes, sbplb.val),
                           pieces_per_box |-> ppb,
                           boxes_per_small_box |-> bpsb,
                           small_boxes_per_large_box |-> sbplb.val])

\* RegularDataProcessor.calculate_multi_level_quantities: the fourth parameter
\* has no default, and the remainders are read from the three-level keys
RegularCalculateMultiLevelQuantities(tp, ppb, bpsb, sbplb) ==
    IF sbplb.kind = "omitted" THEN Raise("TypeError")
    ELSE LET q == BaseCalculateMultiLevelQuantities(tp, ppb, bpsb, sbplb) IN
         IF ~Returned(q) THEN q
         ELSE IF "total_small_boxes" \notin DOMAIN q.value THEN Raise("KeyError")
         ELSE Return(q.value @@
                [remaining_pieces_in_last_box |-> PyMod(tp, ppb),
                 remaining_boxes_in_last_small_box |->
                     PyMod(q.value.total_boxes, bpsb),
                 remaining_small_boxes_in_last_large_box |->
                     PyMod(q.value.total_small_boxes, sbplb.val)])

\* SplitBoxDataProcessor.calculate_multi_level_quantities: the fourth parameter
\* has no default; delegates to the base class
SplitCalculateMultiLevelQuantities(tp, ppb, bpsb, sbplb) ==
    IF sbplb.kind = "omitted" THEN Raise("TypeError")
    ELSE BaseCalculateMultiLevelQuantities(tp, ppb, bpsb, sbplb)

\* RegularTemplate._create_three_level_pdfs, lines 55-81: the counts and
\* remainder_info the template computes itself (params are int(...) values)
RegularTemplateThreeLevelQuantities(tp, ppb, bpsb, sbplb) ==
    IF ppb = 0 \/ bpsb = 0 \/ sbplb = 0 THEN Raise("ZeroDivisionError")
    ELSE LET total_boxes == MathCeilDiv(tp, ppb)
             total_small_boxes == MathCeilDiv(total_boxes, bpsb)
             total_large_boxes == MathCeilDiv(total_small_boxes, sbplb)
             rp == PyMod(tp, ppb)
             rb == PyMod(total_boxes, bpsb)
             rs == PyMod(total_small_boxes, sbplb)
         IN  Return([total_pieces |-> tp,
                     total_boxes |-> total_boxes,
                     total_small_boxes |-> total_small_boxes,
                     total_large_boxes |-> total_large_boxes,
                     remaining_pieces_in_last_box |-> IF rp = 0 THEN ppb ELSE rp,
                     remaining_boxes_in_last_small_box |->
                         IF rb = 0 THEN bpsb ELSE rb,
                     remaining_small_boxes_in_last_large_box |->
                         IF rs = 0 THEN sbplb ELSE rs])

(***************************************************************************)
(* Specification of the quantity computation: the caller holds a request   *)
(* and applies one processor's computation to it.                          *)
(***************************************************************************)
PiecesDom == (0 .. MaxPieces) \cup {1057}
PerBoxDom == (-1 .. MaxPerBox) \cup {50}
RatioDom == (-1 .. MaxRatio) \cup {5, 10}
OptRatioDom == {Omitted, PyNone} \cup {PyInt(v) : v \in RatioDom}

NoLabel == [serial |-> <<>>]

InitQty ==
    /\ pc = "ready"
    /\ total_pieces \in PiecesDom
    /\ pieces_per_box \in PerBoxDom
    /\ boxes_per_small_box \in RatioDom
    /\ small_boxes_per_large_box \in OptRatioDom
    /\ base_number = <<>>
    /\ processor = "none"
    /\ quantities = NoResult
    /\ num = 0
    /\ label = NoLabel
    /\ pieces_sum = 0
    /\ args = NoArgs
    /\ result = NoResult
    /\ instances = ModuleInstances
    /\ threads = NoThreads

QtyFrame == UNCHANGED <<total_pieces, pieces_per_box, boxes_per_small_box,
                        small_boxes_per_large_box, base_number, num, label,
                        pieces_sum, args, result, instances, threads>>

CalcBase ==
    /\ pc = "ready"
    /\ pc' = "done"
    /\ processor' = "base"
    /\ quantities' = BaseCalculateMultiLevelQuantities(total_pieces,
            pieces_per_box, boxes_per_small_box, small_boxes_per_large_box)
    /\ QtyFrame

CalcRegular ==
    /\ pc = "ready"
    /\ pc' = "done"
    /\ processor' = "regular"
    /\ quantities' = RegularCalculateMultiLevelQuantities(total_pieces,
            pieces_per_box, boxes_per_small_box, small_boxes_per_large_box)
    /\ QtyFrame

CalcSplit ==
    /\ pc = "ready"
    /\ pc' = "done"
    /\ processor' = "split"
    /\ quantities' = SplitCalculateMultiLevelQuantities(total_pieces,
            pieces_per_box, boxes_per_small_box, small_boxes_per_large_box)
    /\ QtyFrame

CalcRegularTemplate ==
    /\ pc = "ready"
    /\ small_boxes_per_large_box.kind = "int"
    /\ pc' = "done"
    /\ processor' = "regular_template"
    /\ quantities' = RegularTemplateThreeLevelQuantities(total_pieces,
            pieces_per_box, boxes_per_small_box, small_boxes_per_large_box.val)
    /\ QtyFrame

NextQty == CalcBase \/ CalcRegular \/ CalcSplit \/ CalcRegularTemplate

SpecQty == InitQty /\ [][NextQty]_vars

(***************************************************************************)
(* Strings, number formatting and the regular expressions of the parsers.  *)
(***************************************************************************)
Digits == <<"0", "1", "2", "3", "4", "5", "6", "7", "8", "9">>
IsDigit(c) == c \in {"0", "1", "2", "3", "4", "5", "6", "7", "8", "9"}
IsUpper(c) == c \in {"A", "B", "C", "D", "E", "F", "G", "H", "I", "J", "K",
                     "L", "M", "N", "O", "P", "Q", "R", "S", "T", "U", "V",
                     "W", "X", "Y", "Z"}
DigitVal(c) == CHOOSE d \in 0 .. 9 : Digits[d + 1] = c

SetMin(S) == CHOOSE x \in S : \A y \in S : x <= y

\* str(n) for n >= 0
RECURSIVE NatToStr(_)
NatToStr(n) ==
    IF n < 10 THEN <<Digits[n + 1]>>
    ELSE NatToStr(n \div 10) \o <<Digits[(n % 10) + 1]>>

\* int(s) for a run of digits s
RECURSIVE StrToNat(_)
StrToNat(s) ==
    IF s = <<>> THEN 0
    ELSE StrToNat(SubSeq(s, 1, Len(s) - 1)) * 10 + DigitVal(s[Len(s)])

Zeros(k) == [i \in 1 .. k |-> "0"]

\* the zero padding dropped: the bare decimal number
ZeroPad_NoPad(n, width) ==
    IF n >= 0 THEN NatToStr(n) ELSE <<"-">> \o NatToStr(-n)

\* f"{n:0{width}d}": the sign, then zeros up to the width, then the digits
ZeroPad(n, width) ==
    LET body == NatToStr(IF n >= 0 THEN n ELSE -n)
        sign == IF n >= 0 THEN <<>> ELSE <<"-">>
        fill == width - Len(body) - Len(sign)
    IN  sign \o Zeros(IF fill > 0 THEN fill ELSE 0) \o body

\* the end (exclusive) of the maximal run of digits starting at position i
DigitRunEnd(s, i) ==
    SetMin({j \in i .. Len(s) + 1 : j = Len(s) + 1 \/ ~IsDigit(s[j])})

\* the end (exclusive) of the maximal run of [A-Z] starting at position i
UpperRunEnd(s, i) ==
    SetMin({j \in i .. Len(s) + 1 : j = Len(s) + 1 \/ ~IsUpper(s[j])})

\* re.search(r"(\d+)", s): the start of the first digit, 0 when there is none
FirstDigitPos(s) ==
    LET ds == {i \in 1 .. Len(s) : IsDigit(s[i])} IN
    IF ds = {} THEN 0 ELSE SetMin(ds)

\* re.search(r"([A-Z]+)(\d+)", s): the start of the leftmost run of capitals
\* that a digit follows directly, 0 when there is none
UpperDigitPos(s) ==
    LET ms == {i \in 1 .. Len(s) :
                  /\ IsUpper(s[i])
                  /\ UpperRunEnd(s, i) <= Len(s)
                  /\ IsDigit(s[UpperRunEnd(s, i)])} IN
    IF ms = {} THEN 0 ELSE SetMin(ms)

DSK == <<"D", "S", "K">>

\* the simple parser falling back to the start number of the other parsers
parse_simple_serial_format_Default1001(serial_number) ==
    LET i == UpperDigitPos(serial_number) IN
    IF serial_number = <<>> \/ i = 0
    THEN [prefix |-> DSK, start_number |-> 1001, digits |-> 5]
    ELSE LET j == UpperRunEnd(serial_number, i)
             k == DigitRunEnd(serial_number, j)
         IN  [prefix |-> SubSeq(serial_number, i, j - 1),
              start_number |-> StrToNat(SubSeq(serial_number, j, k - 1)),
              digits |-> k - j]

\* BaseDataProcessor.parse_simple_serial_format
parse_simple_serial_format(serial_number) ==
    LET i == UpperDigitPos(serial_number) IN
    IF serial_number = <<>> \/ i = 0
    THEN [prefix |-> DSK, start_number |-> 1, digits |-> 5]
    ELSE LET j == UpperRunEnd(serial_number, i)
             k == DigitRunEnd(serial_number, j)
         IN  [prefix |-> SubSeq(serial_number, i, j - 1),
              start_number |-> StrToNat(SubSeq(serial_number, j, k - 1)),
              digits |-> k - j]

\* BaseDataProcessor.parse_complex_serial_format
parse_complex_serial_format(serial_number) ==
    LET i == FirstDigitPos(serial_number) IN
    IF i = 0
    THEN [prefix |-> DSK, main_number |-> 1001, digit_start |-> 0]
    ELSE [prefix |-> SubSeq(serial_number, 1, i - 1),
          main_number |->
              StrToNat(SubSeq(serial_number, i,
                              DigitRunEnd(serial_number, i) - 1)),
          digit_start |-> i - 1]

\* re.search(r"(.+?)(\d+)-(\d+)", s): the match starts at the first character;
\* the lazy prefix ends before the first position >= 2 whose digit run is
\* followed by "-" and a digit. The position of group 2, 0 when no match.
MainSuffixPos(s) ==
    LET ms == {i \in 2 .. Len(s) :
                  /\ IsDigit(s[i])
                  /\ DigitRunEnd(s, i) + 1 <= Len(s)
                  /\ s[DigitRunEnd(s, i)] = "-"
                  /\ IsDigit(s[DigitRunEnd(s, i) + 1])} IN
    IF ms = {} THEN 0 ELSE SetMin(ms)

\* re.search(r"(.+?)(\d+)", s): the lazy prefix takes at least one character,
\* group 2 starts at the first digit at a position >= 2; 0 when no match
PrefixedDigitPos(s) ==
    LET ds == {i \in 2 .. Len(s) : IsDigit(s[i])} IN
    IF ds = {} THEN 0 ELSE SetMin(ds)

\* the default format of the general parser
DefaultSerialFormat ==
    [prefix |-> DSK, main_number |-> 1001, suffix |-> 1, main_digits |-> 5,
     suffix_digits |-> 2, has_suffix |-> TRUE]

\* BaseDataProcessor.parse_serial_number_format
parse_serial_number_format(serial_number) ==
    LET i == MainSuffixPos(serial_number)
        k == PrefixedDigitPos(serial_number)
    IN  IF i # 0
        THEN LET j == DigitRunEnd(serial_number, i) IN
             [prefix |-> SubSeq(serial_number, 1, i - 1),
              main_number |-> StrToNat(SubSeq(serial_number, i, j - 1)),
              suffix |-> StrToNat(SubSeq(serial_number, j + 1,
                             DigitRunEnd(serial_number, j + 1) - 1)),
              main_digits |-> 5, suffix_digits |-> 2, has_suffix |-> TRUE]
        ELSE IF k # 0
        THEN [prefix |-> SubSeq(serial_number, 1, k - 1),
              main_number |->
                  StrToNat(SubSeq(serial_number, k,
                                  DigitRunEnd(serial_number, k) - 1)),
              suffix |-> 0, main_digits |-> 5, suffix_digits |-> 0,
              has_suffix |-> FALSE]
        ELSE DefaultSerialFormat

(***************************************************************************)
(* Regular (linear) data processor.                                        *)
(***************************************************************************)

\* the box number used as the offset, without the -1
generate_linear_serial_number_OffByOne(base, box_num) ==
    LET serial_info == parse_simple_serial_format(base) IN
    serial_info.prefix
        \o ZeroPad(serial_info.start_number + box_num, serial_info.digits)

\* RegularDataProcessor.generate_linear_serial_number
generate_linear_serial_number(base, box_num) ==
    LET serial_info == parse_simple_serial_format(base) IN
    serial_info.prefix
        \o ZeroPad(serial_info.start_number + (box_num - 1), serial_info.digits)

\* the range collapsed to one serial when first and last coincide
generate_linear_serial_range_Collapse(base, container_num, items_per_container, total_items) ==
    LET serial_info == parse_simple_serial_format(base)
        start_item == (container_num - 1) * items_per_container + 1
        end_item0 == start_item + items_per_container - 1
        end_item == IF total_items.kind = "int"
                    THEN Min(end_item0, total_items.val) ELSE end_item0
        first_serial == serial_info.prefix
            \o ZeroPad(serial_info.start_number + (start_item - 1),
                       serial_info.digits)
        last_serial == serial_info.prefix
            \o ZeroPad(serial_info.start_number + (end_item - 1),
                       serial_info.digits)
    IN  [serial |-> IF first_serial = last_serial THEN first_serial
                    ELSE first_serial \o <<"-">> \o last_serial,
         start_item |-> start_item, end_item |-> end_item]

\* the end item left unclamped
generate_linear_serial_range_NoClamp(base, container_num, items_per_container, total_items) ==
    LET serial_info == parse_simple_serial_format(base)
        start_item == (container_num - 1) * items_per_container + 1
        end_item == start_item + items_per_container - 1
        first_serial == serial_info.prefix
            \o ZeroPad(serial_info.start_number + (start_item - 1),
                       serial_info.digits)
        last_serial == serial_info.prefix
            \o ZeroPad(serial_info.start_number + (end_item - 1),
                       serial_info.digits)
    IN  [serial |-> first_serial \o <<"-">> \o last_serial,
         start_item |-> start_item, end_item |-> end_item]

\* RegularDataProcessor.generate_linear_serial_range: the returned range
\* string, with the start and end item it prints
generate_linear_serial_range(base, container_num, items_per_container, total_items) ==
    LET serial_info == parse_simple_serial_format(base)
        start_item == (container_num - 1) * items_per_container + 1
        end_item0 == start_item + items_per_container - 1
        end_item == IF total_items.kind = "int"
                    THEN Min(end_item0, total_items.val) ELSE end_item0
        first_serial == serial_info.prefix
            \o ZeroPad(serial_info.start_number + (start_item - 1),
                       serial_info.digits)
        last_serial == serial_info.prefix
            \o ZeroPad(serial_info.start_number + (end_item - 1),
                       serial_info.digits)
    IN  [serial |-> first_serial \o <<"-">> \o last_serial,
         start_item |-> start_item, end_item |-> end_item]

\* RegularDataProcessor.generate_regular_small_box_serial_range
generate_regular_small_box_serial_range(base, small_box_num, bpsb, total_boxes) ==
    generate_linear_serial_range(base, small_box_num, bpsb, total_boxes)

\* RegularDataProcessor.generate_regular_large_box_serial_range
generate_regular_large_box_serial_range(base, large_box_num, sbplb, bpsb, total_boxes) ==
    LET start_small_box == (large_box_num - 1) * sbplb + 1
        end_small_box == start_small_box + sbplb - 1
        start_box == (start_small_box - 1) * bpsb + 1
        end_box0 == end_small_box * bpsb
        end_box == IF total_boxes.kind = "int"
                   THEN Min(end_box0, total_boxes.val) ELSE end_box0
    IN  generate_linear_serial_range(base, large_box_num,
                                     end_box - start_box + 1, total_boxes)

(***************************************************************************)
(* Split (grouped) data processor.                                         *)
(***************************************************************************)
\* Python's a // b on integers, b # 0
PyFloorDiv(a, b) == IF b > 0 THEN a \div b ELSE (-a) \div (-b)

\* the grouped serial of the 0-based item index: main number and suffix
GroupedSerial(serial_info, item_index, group_size) ==
    serial_info.prefix
        \o ZeroPad(serial_info.main_number + PyFloorDiv(item_index, group_size), 5)
        \o <<"-">>
        \o ZeroPad(PyMod(item_index, group_size) + 1, 2)

\* the suffix taken 0-based (the +1 forgotten)
generate_grouped_serial_number_ZeroBased(base, box_num, group_size) ==
    IF group_size = 0 THEN Raise("ZeroDivisionError")
    ELSE LET serial_info == parse_complex_serial_format(base)
             box_index == box_num - 1
         IN  Return(serial_info.prefix
                 \o ZeroPad(serial_info.main_number
                                + PyFloorDiv(box_index, group_size), 5)
                 \o <<"-">>
                 \o ZeroPad(PyMod(box_index, group_size), 2))

\* SplitBoxDataProcessor.generate_grouped_serial_number
generate_grouped_serial_number(base, box_num, group_size) ==
    IF group_size = 0 THEN Raise("ZeroDivisionError")
    ELSE LET serial_info == parse_complex_serial_format(base)
             box_index == box_num - 1
             main_increments == PyFloorDiv(box_index, group_size)
             suffix_in_group == PyMod(box_index, group_size) + 1
             current_main == serial_info.main_number + main_increments
         IN  Return(serial_info.prefix \o ZeroPad(current_main, 5)
                        \o <<"-">> \o ZeroPad(suffix_in_group, 2))

\* SplitBoxDataProcessor.generate_grouped_serial_range: the returned range
\* string, with the start and end item it prints
generate_grouped_serial_range(base, container_num, items_per_container, group_size, total_items) ==
    IF group_size = 0 THEN Raise("ZeroDivisionError")
    ELSE LET serial_info == parse_complex_serial_format(base)
             start_item == (container_num - 1) * items_per_container + 1
             end_item0 == start_item + items_per_container - 1
             end_item == IF total_items.kind = "int"
                         THEN Min(end_item0, total_items.val) ELSE end_item0
             first_serial ==
                 GroupedSerial(serial_info, start_item - 1, group_size)
             last_serial ==
                 GroupedSerial(serial_info, end_item - 1, group_size)
         IN  Return([serial |-> first_serial \o <<"-">> \o last_serial,
                     start_item |-> start_item, end_item |-> end_item])

\* SplitBoxDataProcessor.calculate_carton_number_for_small_box
calculate_carton_number_for_small_box(small_box_num, sbplb) ==
    LET large_box_num == PyFloorDiv(small_box_num - 1, sbplb) + 1
        small_box_in_large_box == PyMod(small_box_num - 1, sbplb) + 1
    IN  NatToStr(large_box_num) \o <<"-">> \o NatToStr(small_box_in_large_box)

\* SplitBoxDataProcessor.calculate_carton_range_for_large_box
calculate_carton_range_for_large_box(large_box_num, sbplb) ==
    LET start_small_box == (large_box_num - 1) * sbplb + 1
        end_small_box == start_small_box + sbplb - 1
    IN  NatToStr(start_small_box) \o <<"-">> \o NatToStr(end_small_box)

\* SplitBoxDataProcessor.generate_split_box_serial_number
generate_split_box_serial_number(base, box_num, bpsb, sbplb) ==
    generate_grouped_serial_number(base, box_num, bpsb * sbplb)

\* SplitBoxDataProcessor.generate_split_small_box_serial_range
generate_split_small_box_serial_range(base, small_box_num, bpsb, sbplb, total_boxes) ==
    generate_grouped_serial_range(base, small_box_num, bpsb, bpsb * sbplb,
                                  total_boxes)

\* SplitBoxDataProcessor.generate_split_large_box_serial_range: the clamped
\* number of boxes of the large box is handed on as items_per_container
generate_split_large_box_serial_range(base, large_box_num, sbplb, bpsb, total_boxes) ==
    LET group_size == bpsb * sbplb
        start_small_box == (large_box_num - 1) * sbplb + 1
        end_small_box == start_small_box + sbplb - 1
        start_box == (start_small_box - 1) * bpsb + 1
        end_box0 == end_small_box * bpsb
        end_box == IF total_boxes.kind = "int"
                   THEN Min(end_box0, total_boxes.val) ELSE end_box0
    IN  generate_grouped_serial_range(base, large_box_num,
                end_box - start_box + 1, group_size, total_boxes)

(***************************************************************************)
(* Nested data processor: ranges of the small-box and large-box labels.    *)
(***************************************************************************)

\* the main number never carried: every unit restarts on the same main
generate_box_serial_number_NoCarry(base, box_num, boxes_per_ending_unit) ==
    LET serial_info == parse_serial_number_format(base)
        suffix_in_range ==
            PyMod(box_num - 1, boxes_per_ending_unit) + serial_info.suffix
    IN  serial_info.prefix \o ZeroPad(serial_info.main_number, 5) \o <<"-">>
            \o ZeroPad(suffix_in_range, 2)

\* NestedBoxDataProcessor.generate_box_serial_number: the serial of box
\* box_num; the suffix counts on from the suffix of the start serial
generate_box_serial_number(base, box_num, boxes_per_ending_unit) ==
    LET serial_info == parse_serial_number_format(base)
        box_index == box_num - 1
        main_offset == PyFloorDiv(box_index, boxes_per_ending_unit)
        suffix_in_range ==
            PyMod(box_index, boxes_per_ending_unit) + serial_info.suffix
        current_main == serial_info.main_number + main_offset
    IN  serial_info.prefix \o ZeroPad(current_main, 5) \o <<"-">>
            \o ZeroPad(suffix_in_range, 2)

\* NestedBoxDataProcessor.generate_small_box_serial_range: the returned range
\* string, with the start and end box it prints (when the base has a digit)
generate_small_box_serial_range(base, small_box_num, bpsb, total_boxes) ==
    LET i == FirstDigitPos(base) IN
    IF i = 0
    THEN [serial |-> DSK \o ZeroPad(small_box_num, 5) \o <<"-">>
                         \o DSK \o ZeroPad(small_box_num, 5),
          matched |-> FALSE, start_item |-> 0, end_item |-> 0]
    ELSE LET prefix_part == SubSeq(base, 1, i - 1)
             base_main_num == StrToNat(SubSeq(base, i, DigitRunEnd(base, i) - 1))
             current_main_number == base_main_num + (small_box_num - 1)
             start_box == (small_box_num - 1) * bpsb + 1
             end_box0 == start_box + bpsb - 1
             end_box == IF total_boxes.kind = "int"
                        THEN Min(end_box0, total_boxes.val) ELSE end_box0
             start_suffix == 1
             actual_boxes_in_small_box == end_box - start_box + 1
             end_suffix == start_suffix + actual_boxes_in_small_box - 1
         IN  [serial |-> prefix_part \o ZeroPad(current_main_number, 5)
                             \o <<"-">> \o ZeroPad(start_suffix, 2) \o <<"-">>
                             \o prefix_part \o ZeroPad(current_main_number, 5)
                             \o <<"-">> \o ZeroPad(end_suffix, 2),
              matched |-> TRUE, start_item |-> start_box, end_item |-> end_box]

\* NestedBoxDataProcessor.generate_large_box_serial_range
generate_large_box_serial_range(base, large_box_num, sbplb, bpsb, total_boxes) ==
    LET start_small_box == (large_box_num - 1) * sbplb + 1
        end_small_box0 == start_small_box + sbplb - 1
        start_box == (start_small_box - 1) * bpsb + 1
        end_box0 == end_small_box0 * bpsb
        end_box == IF total_boxes.kind = "int"
                   THEN Min(end_box0, total_boxes.val) ELSE end_box0
        end_small_box == IF total_boxes.kind = "int"
                         THEN Min(end_small_box0, MathCeilDiv(end_box, bpsb))
                         ELSE end_small_box0
        i == FirstDigitPos(base)
    IN  IF i = 0
        THEN [serial |-> DSK \o ZeroPad(large_box_num, 5) \o <<"-">>
                             \o DSK \o ZeroPad(large_box_num, 5),
              matched |-> FALSE, start_item |-> start_box, end_item |-> end_box]
        ELSE LET prefix_part == SubSeq(base, 1, i - 1)
                 base_main_num ==
                     StrToNat(SubSeq(base, i, DigitRunEnd(base, i) - 1))
                 first_main_number == base_main_num + (start_small_box - 1)
                 last_main_number == base_main_num + (end_small_box - 1)
                 last_box_in_small_box == end_box - (end_small_box - 1) * bpsb
                 last_suffix == Min(bpsb, last_box_in_small_box)
             IN  [serial |-> prefix_part \o ZeroPad(first_main_number, 5)
                                 \o <<"-", "0", "1", "-">>
                                 \o prefix_part \o ZeroPad(last_main_number, 5)
                                 \o <<"-">> \o ZeroPad(last_suffix, 2),
                  matched |-> TRUE,
                  start_item |-> start_box, end_item |-> end_box]

(***************************************************************************)
(* Overweight mode: one set of boxes is split over several large boxes.    *)
(***************************************************************************)

\* the extra item given to the containers at the back instead of the front
calculate_overweight_distribution_BackLoaded(items_per_set, sets_per_container, item_in_container) ==
    IF sets_per_container = 0 THEN Raise("ZeroDivisionError")
    ELSE LET base_items == PyFloorDiv(items_per_set, sets_per_container)
             remainder == PyMod(items_per_set, sets_per_container)
         IN  IF item_in_container > sets_per_container - remainder
             THEN Return(base_items + 1) ELSE Return(base_items)

\* the comparison with the remainder made strict: one extra item is lost
calculate_overweight_distribution_Strict(items_per_set, sets_per_container, item_in_container) ==
    IF sets_per_container = 0 THEN Raise("ZeroDivisionError")
    ELSE LET base_items == PyFloorDiv(items_per_set, sets_per_container)
             remainder == PyMod(items_per_set, sets_per_container)
         IN  IF item_in_container < remainder
             THEN Return(base_items + 1) ELSE Return(base_items)

\* BaseDataProcessor.calculate_overweight_distribution
calculate_overweight_distribution(items_per_set, sets_per_container, item_in_container) ==
    IF sets_per_container = 0 THEN Raise("ZeroDivisionError")
    ELSE LET base_items == PyFloorDiv(items_per_set, sets_per_container)
             remainder == PyMod(items_per_set, sets_per_container)
         IN  IF item_in_container <= remainder
             THEN Return(base_items + 1) ELSE Return(base_items)

\* NestedBoxDataProcessor.calculate_overweight_box_distribution
calculate_overweight_box_distribution(boxes_per_set, boxes_per_large_box, box_in_set) ==
    calculate_overweight_distribution(boxes_per_set, boxes_per_large_box,
                                      box_in_set)

\* the loop "for i in range(1, box_in_set)": the boxes of the set that lie in
\* the large boxes before box_in_set
RECURSIVE BoxesBefore(_, _, _)
BoxesBefore(boxes_per_set, boxes_per_large_box, box_in_set) ==
    IF box_in_set <= 1 THEN 0
    ELSE BoxesBefore(boxes_per_set, boxes_per_large_box, box_in_set - 1)
         + calculate_overweight_box_distribution(boxes_per_set,
               boxes_per_large_box, box_in_set - 1).value

\* the suffix restarted at 1 instead of the parsed base suffix
generate_overweight_serial_range_SuffixFromOne(base, set_num, box_in_set, boxes_per_set, boxes_per_large_box) ==
    IF boxes_per_large_box = 0 THEN Raise("ZeroDivisionError")
    ELSE
    LET boxes_in_current_box ==
            calculate_overweight_box_distribution(boxes_per_set,
                boxes_per_large_box, box_in_set).value
        start_box_in_set ==
            BoxesBefore(boxes_per_set, boxes_per_large_box, box_in_set) + 1
        end_box_in_set == start_box_in_set + boxes_in_current_box - 1
        i == MainSuffixPos(base)
    IN  IF i = 0
        THEN Return([serial |-> DSK \o ZeroPad(set_num, 5) \o <<"-">>
                                    \o ZeroPad(box_in_set, 2),
                     matched |-> FALSE, start_box_in_set |-> start_box_in_set,
                     end_box_in_set |-> end_box_in_set])
        ELSE LET start_prefix == SubSeq(base, 1, i - 1)
                 j == DigitRunEnd(base, i)
                 current_main ==
                     StrToNat(SubSeq(base, i, j - 1)) + (set_num - 1)
             IN  Return([serial |->
                             start_prefix \o ZeroPad(current_main, 5)
                                 \o <<"-">> \o ZeroPad(start_box_in_set, 2)
                                 \o <<"-">>
                                 \o start_prefix \o ZeroPad(current_main, 5)
                                 \o <<"-">> \o ZeroPad(end_box_in_set, 2),
                         matched |-> TRUE,
                         start_box_in_set |-> start_box_in_set,
                         end_box_in_set |-> end_box_in_set])

\* generate_overweight_serial_range, lines 243-274: the part after the loop,
\* from the first box of the container and its number of boxes to the string
OverweightSerialRangeOf(base, set_num, box_in_set, start_box_in_set, boxes_in_current_box) ==
    LET end_box_in_set == start_box_in_set + boxes_in_current_box - 1
        i == MainSuffixPos(base)
    IN  IF i = 0
        THEN Return([serial |-> DSK \o ZeroPad(set_num, 5) \o <<"-">>
                                    \o ZeroPad(box_in_set, 2),
                     matched |-> FALSE, start_box_in_set |-> start_box_in_set,
                     end_box_in_set |-> end_box_in_set])
        ELSE LET start_prefix == SubSeq(base, 1, i - 1)
                 j == DigitRunEnd(base, i)
                 base_main_num == StrToNat(SubSeq(base, i, j - 1))
                 start_suffix ==
                     StrToNat(SubSeq(base, j + 1, DigitRunEnd(base, j + 1) - 1))
                 current_main == base_main_num + (set_num - 1)
                 start_suffix_in_set == start_suffix + (start_box_in_set - 1)
                 end_suffix_in_set == start_suffix + (end_box_in_set - 1)
             IN  Return([serial |->
                             start_prefix \o ZeroPad(current_main, 5)
                                 \o <<"-">> \o ZeroPad(start_suffix_in_set, 2)
                                 \o <<"-">>
                                 \o start_prefix \o ZeroPad(current_main, 5)
                                 \o <<"-">> \o ZeroPad(end_suffix_in_set, 2),
                         matched |-> TRUE,
                         start_box_in_set |-> start_box_in_set,
                         end_box_in_set |-> end_box_in_set])

\* NestedBoxDataProcessor.generate_overweight_serial_range: the returned
\* string, with the boxes of the set it stands for
generate_overweight_serial_range(base, set_num, box_in_set, boxes_per_set, boxes_per_large_box) ==
    IF boxes_per_large_box = 0 THEN Raise("ZeroDivisionError")
    ELSE OverweightSerialRangeOf(base, set_num, box_in_set,
             BoxesBefore(boxes_per_set, boxes_per_large_box, box_in_set) + 1,
             calculate_overweight_box_distribution(boxes_per_set,
                 boxes_per_large_box, box_in_set).value)

(***************************************************************************)
(* Specification of label generation: for one validated request (ratios    *)
(* >= 1, 1 <= pieces_per_box <= total_pieces) a caller runs one of the      *)
(* label loops, container 1, 2, ... up to the level's total.               *)
(***************************************************************************)
Bases == {
    <<"D", "S", "K", "0", "0", "0", "0", "1">>,
    <<"D", "S", "K", "0", "0", "0", "0", "1", "-", "0", "1">>,
    <<"J", "A", "W", "0", "1", "0", "0", "1", "-", "0", "3">>,
    <<"A", "9", "8">>,
    <<"a", "b", "1", "2">>,
    <<"X", "Y", "Z">>,
    <<>> }

DEFAULT01001 == <<"D", "E", "F", "A", "U", "L", "T", "0", "1", "0", "0", "1">>

\* data.get('开始号') or 'DEFAULT01001' of the small-box and large-box labels
LabelBaseNumber == IF base_number = <<>> THEN DEFAULT01001 ELSE base_number

TotalBoxes == MathCeilDiv(total_pieces, pieces_per_box)
TotalSmallBoxes == MathCeilDiv(TotalBoxes, boxes_per_small_box)
TotalLargeBoxes == MathCeilDiv(TotalSmallBoxes, small_boxes_per_large_box.val)
TotalTwoLevelLargeBoxes == MathCeilDiv(TotalBoxes, boxes_per_small_box)

InitLabels ==
    /\ pc = "ready"
    /\ total_pieces \in 1 .. MaxPieces
    /\ pieces_per_box \in 1 .. Min(MaxPerBox, total_pieces)
    /\ boxes_per_small_box \in 1 .. MaxRatio
    /\ small_boxes_per_large_box \in {PyInt(v) : v \in 1 .. MaxRatio}
    /\ base_number \in Bases
    /\ processor = "none"
    /\ quantities = NoResult
    /\ num = 0
    /\ label = NoLabel
    /\ pieces_sum = 0
    /\ args = NoArgs
    /\ result = NoResult
    /\ instances = ModuleInstances
    /\ threads = NoThreads

\* the container the loop `loop` handles next: the first one, or the one after
\* the container it handled last
NextNum(loop) == IF pc = loop THEN num + 1 ELSE 1

\* one iteration of the loop `loop` over containers 1 .. total; next_label is
\* the label of container NextNum(loop)
LoopStep(loop, proc, total, next_label) ==
    /\ pc \in {"ready", loop}
    /\ NextNum(loop) <= total
    /\ num' = NextNum(loop)
    /\ label' = next_label
    /\ pieces_sum' = (IF pc = loop THEN pieces_sum ELSE 0) + next_label.pieces
    /\ pc' = loop
    /\ processor' = proc
    /\ UNCHANGED <<total_pieces, pieces_per_box, boxes_per_small_box,
                   small_boxes_per_large_box, base_number, quantities,
                   args, result, instances, threads>>

\* the pieces the templates print on the label of a container of `capacity`
\* boxes: the boxes it holds after clamping, times pieces_per_box
ActualPieces(container_num, capacity) ==
    LET start_box == (container_num - 1) * capacity + 1
        end_box == Min(start_box + capacity - 1, TotalBoxes)
    IN  (end_box - start_box + 1) * pieces_per_box

\* RegularDataProcessor.generate_linear_serial_number for box 1, 2, ...
LinearSerialNumberLabel(n) ==
    [serial |-> generate_linear_serial_number(base_number, n), pieces |-> 0]

LinearSerialNumber ==
    LoopStep("linear_number", "regular", TotalBoxes,
             LinearSerialNumberLabel(NextNum("linear_number")))

\* RegularTemplate._create_single_box_label_file, the serial of one box
\* label: the loop parses the start serial itself (first digit run, width 5);
\* _create_box_label falls back to DSK00001 when there is no start serial
BoxLabelBaseNumber ==
    IF base_number = <<>>
    THEN <<"D", "S", "K", "0", "0", "0", "0", "1">> ELSE base_number

RegularBoxLabelOf(box_num) ==
    LET b == BoxLabelBaseNumber
        digit_start == FirstDigitPos(b)
    IN  IF digit_start # 0
        THEN LET prefix == SubSeq(b, 1, digit_start - 1)
                 base_num ==
                     StrToNat(SubSeq(b, digit_start,
                                     DigitRunEnd(b, digit_start) - 1))
                 current_num == base_num + (box_num - 1)
             IN  [serial |-> prefix \o ZeroPad(current_num, 5), pieces |-> 0]
        ELSE [serial |-> <<"B", "O", "X">> \o ZeroPad(box_num, 5),
              pieces |-> 0]

RegularBoxLabel ==
    LoopStep("regular_box", "regular", TotalBoxes,
             RegularBoxLabelOf(NextNum("regular_box")))

\* RegularTemplate._create_single_small_box_label_file, one small-box label
RegularSmallBoxLabelOf(n) ==
    generate_regular_small_box_serial_range(LabelBaseNumber, n,
            boxes_per_small_box, PyInt(TotalBoxes))
    @@ [pieces |-> ActualPieces(n, boxes_per_small_box),
        carton_no |-> NatToStr(n) \o <<"/">> \o NatToStr(TotalSmallBoxes)]

RegularSmallBoxLabel ==
    LoopStep("regular_small", "regular", TotalSmallBoxes,
             RegularSmallBoxLabelOf(NextNum("regular_small")))

\* RegularTemplate._create_single_large_box_label_file, one large-box label
RegularLargeBoxLabelOf(n) ==
    generate_regular_large_box_serial_range(LabelBaseNumber, n,
            small_boxes_per_large_box.val, boxes_per_small_box,
            PyInt(TotalBoxes))
    @@ [pieces |-> ActualPieces(n, boxes_per_small_box
                                       * small_boxes_per_large_box.val),
        carton_no |-> NatToStr(n) \o <<"/">> \o NatToStr(TotalLargeBoxes)]

RegularLargeBoxLabel ==
    LoopStep("regular_large", "regular", TotalLargeBoxes,
             RegularLargeBoxLabelOf(NextNum("regular_large")))

\* RegularTemplate._create_single_two_level_large_box_label_file (no small
\* boxes: boxes_per_small_box is the boxes per large box)
RegularTwoLevelLargeBoxLabelOf(n) ==
    generate_regular_large_box_serial_range(LabelBaseNumber, n, 1,
            boxes_per_small_box, PyInt(TotalBoxes))
    @@ [pieces |-> ActualPieces(n, boxes_per_small_box),
        carton_no |-> NatToStr(n) \o <<"/">>
                          \o NatToStr(TotalTwoLevelLargeBoxes)]

RegularTwoLevelLargeBoxLabel ==
    LoopStep("regular_two_level", "regular", TotalTwoLevelLargeBoxes,
             RegularTwoLevelLargeBoxLabelOf(NextNum("regular_two_level")))

\* SplitBoxDataProcessor.generate_split_box_serial_number for box 1, 2, ...
SplitSerialNumberLabel(n) ==
    [serial |-> generate_split_box_serial_number(base_number, n,
                    boxes_per_small_box, small_boxes_per_large_box.val).value,
     pieces |-> 0]

SplitSerialNumber ==
    LoopStep("split_number", "split", TotalBoxes,
             SplitSerialNumberLabel(NextNum("split_number")))

\* SplitBoxDataProcessor.generate_split_small_box_serial_range for small box
\* 1, 2, ...
SplitSmallBoxRangeOf(n) ==
    generate_split_small_box_serial_range(base_number, n, boxes_per_small_box,
            small_boxes_per_large_box.val, PyInt(TotalBoxes)).value
    @@ [pieces |-> 0,
        carton_no |-> calculate_carton_number_for_small_box(n,
                          small_boxes_per_large_box.val)]

SplitSmallBoxRange ==
    LoopStep("split_small", "split", TotalSmallBoxes,
             SplitSmallBoxRangeOf(NextNum("split_small")))

\* SplitBoxDataProcessor.generate_split_large_box_serial_range for large box
\* 1, 2, ...
SplitLargeBoxRangeOf(n) ==
    generate_split_large_box_serial_range(base_number, n,
            small_boxes_per_large_box.val, boxes_per_small_box,
            PyInt(TotalBoxes)).value
    @@ [pieces |-> 0,
        carton_no |-> calculate_carton_range_for_large_box(n,
                          small_boxes_per_large_box.val)]

SplitLargeBoxRange ==
    LoopStep("split_large", "split", TotalLargeBoxes,
             SplitLargeBoxRangeOf(NextNum("split_large")))

\* NestedBoxDataProcessor.generate_box_serial_number for box 1, 2, ..., with
\* boxes_per_small_box boxes to a main number
NestedSerialNumberLabel(n) ==
    [serial |-> generate_box_serial_number(base_number, n, boxes_per_small_box),
     pieces |-> 0]

NestedSerialNumber ==
    LoopStep("nested_number", "nested", TotalBoxes,
             NestedSerialNumberLabel(NextNum("nested_number")))

\* NestedBoxTemplate._create_nested_small_box_label, one small-box label
NestedSmallBoxLabelOf(n) ==
    generate_small_box_serial_range(LabelBaseNumber, n, boxes_per_small_box,
            PyInt(TotalBoxes))
    @@ [pieces |-> ActualPieces(n, boxes_per_small_box),
        carton_no |-> NatToStr(n)]

NestedSmallBoxLabel ==
    LoopStep("nested_small", "nested", TotalSmallBoxes,
             NestedSmallBoxLabelOf(NextNum("nested_small")))

\* NestedBoxTemplate._create_nested_large_box_label, one large-box label
NestedLargeBoxLabelOf(n) ==
    generate_large_box_serial_range(LabelBaseNumber, n,
            small_boxes_per_large_box.val, boxes_per_small_box,
            PyInt(TotalBoxes))
    @@ [pieces |-> ActualPieces(n, boxes_per_small_box
                                       * small_boxes_per_large_box.val),
        carton_no |->
            NatToStr((n - 1) * small_boxes_per_large_box.val + 1) \o <<"-">>
                \o NatToStr((n - 1) * small_boxes_per_large_box.val + 1
                                + small_boxes_per_large_box.val - 1)]

NestedLargeBoxLabel ==
    LoopStep("nested_large", "nested", TotalLargeBoxes,
             NestedLargeBoxLabelOf(NextNum("nested_large")))

\* NestedBoxTemplate._create_overweight_large_box_label: boxes_per_set is
\* params["盒/套"], boxes_per_large_box is params["套/箱"]
TotalSets == MathCeilDiv(TotalBoxes, boxes_per_small_box)
TotalOverweightLargeBoxes == TotalSets * small_boxes_per_large_box.val

\* set_num = ((large_box_num - 1) // boxes_per_large_box) + 1
OverweightSetNum(large_box_num, boxes_per_large_box) ==
    PyFloorDiv(large_box_num - 1, boxes_per_large_box) + 1

\* the position in the set counted from the large box number itself
OverweightBoxInSet_NotWrapped(large_box_num, boxes_per_large_box) ==
    large_box_num

\* box_in_set = ((large_box_num - 1) % boxes_per_large_box) + 1
OverweightBoxInSet(large_box_num, boxes_per_large_box) ==
    PyMod(large_box_num - 1, boxes_per_large_box) + 1

OverweightLargeBoxLabelOf(n) ==
    LET boxes_per_set == boxes_per_small_box
        boxes_per_large_box == small_boxes_per_large_box.val
        set_num == OverweightSetNum(n, boxes_per_large_box)
        box_in_set == OverweightBoxInSet(n, boxes_per_large_box)
        boxes_in_each_box ==
            calculate_overweight_box_distribution(boxes_per_set,
                boxes_per_large_box, box_in_set).value
    IN  generate_overweight_serial_range(LabelBaseNumber, set_num, box_in_set,
                boxes_per_set, boxes_per_large_box).value
        @@ [pieces |-> boxes_in_each_box * pieces_per_box,
            set_num |-> set_num, box_in_set |-> box_in_set,
            carton_no |-> NatToStr(set_num) \o <<"-">> \o NatToStr(box_in_set)]

OverweightLargeBoxLabel ==
    LoopStep("overweight_large", "nested", TotalOverweightLargeBoxes,
             OverweightLargeBoxLabelOf(NextNum("overweight_large")))

NextLabels ==
    \/ LinearSerialNumber
    \/ RegularBoxLabel
    \/ RegularSmallBoxLabel
    \/ RegularLargeBoxLabel
    \/ RegularTwoLevelLargeBoxLabel
    \/ SplitSerialNumber
    \/ SplitSmallBoxRange
    \/ SplitLargeBoxRange
    \/ NestedSerialNumber
    \/ NestedSmallBoxLabel
    \/ NestedLargeBoxLabel
    \/ OverweightLargeBoxLabel

SpecLabels == InitLabels /\ [][NextLabels]_vars

(***************************************************************************)
(* Direct calls of single operations: the arguments are drawn at the      *)
(* start, an action applies one operation to them and keeps its outcome.  *)
(***************************************************************************)
\* the request variables, which a direct call does not use
NoRequest ==
    /\ total_pieces = 0
    /\ pieces_per_box = 0
    /\ boxes_per_small_box = 0
    /\ small_boxes_per_large_box = Omitted
    /\ base_number = <<>>
    /\ processor = "none"
    /\ quantities = NoResult
    /\ num = 0
    /\ label = NoLabel
    /\ pieces_sum = 0

\* one direct call: op names the operation, outcome is what it returns
Call(op, outcome) ==
    /\ pc = "ready"
    /\ pc' = op
    /\ result' = outcome
    /\ UNCHANGED <<total_pieces, pieces_per_box, boxes_per_small_box,
                   small_boxes_per_large_box, base_number, processor,
                   quantities, num, label, pieces_sum, args, instances,
                   threads>>

OptTotalDom == {PyNone} \cup {PyInt(v) : v \in 1 .. MaxPieces}

\* calls of the grouped operations of the split processor, any group_size
InitGrouped ==
    /\ pc = "ready"
    /\ NoRequest
    /\ args \in [base_number : Bases, container_num : 1 .. MaxPieces,
                  items_per_container : 1 .. MaxRatio,
                  group_size : -MaxRatio .. MaxRatio,
                  total_items : OptTotalDom]
    /\ result = NoResult
    /\ instances = ModuleInstances
    /\ threads = NoThreads

CallGroupedSerialNumber ==
    Call("generate_grouped_serial_number",
         generate_grouped_serial_number(args.base_number, args.container_num,
                                        args.group_size))

CallGroupedSerialRange ==
    Call("generate_grouped_serial_range",
         generate_grouped_serial_range(args.base_number, args.container_num,
             args.items_per_container, args.group_size, args.total_items))

NextGrouped == CallGroupedSerialNumber \/ CallGroupedSerialRange

SpecGrouped == InitGrouped /\ [][NextGrouped]_vars

\* calls of the overweight distribution, for every position of a set
MaxItems == 7

InitOverweight ==
    /\ pc = "ready"
    /\ NoRequest
    /\ args \in [items_per_set : 0 .. MaxItems,
                  sets_per_container : 0 .. MaxRatio,
                  item_in_container : 1 .. MaxRatio]
    /\ result = NoResult
    /\ instances = ModuleInstances
    /\ threads = NoThreads

CallOverweightDistribution ==
    Call("calculate_overweight_distribution",
         calculate_overweight_distribution(args.items_per_set,
             args.sets_per_container, args.item_in_container))

CallOverweightBoxDistribution ==
    Call("calculate_overweight_box_distribution",
         calculate_overweight_box_distribution(args.items_per_set,
             args.sets_per_container, args.item_in_container))

NextOverweight == CallOverweightDistribution \/ CallOverweightBoxDistribution

SpecOverweight == InitOverweight /\ [][NextOverweight]_vars

\* calls of the three parsers on short strings and on the start serials
MaxLen == 4
SerialAlphabet == {"A", "b", "7", "-"}
SerialInputs ==
    Bases \cup UNION {[1 .. n -> SerialAlphabet] : n \in 0 .. MaxLen}

InitParse ==
    /\ pc = "ready"
    /\ NoRequest
    /\ args \in [serial_number : SerialInputs]
    /\ result = NoResult
    /\ instances = ModuleInstances
    /\ threads = NoThreads

CallParseSimple ==
    Call("parse_simple_serial_format",
         Return(parse_simple_serial_format(args.serial_number)))

CallParseComplex ==
    Call("parse_complex_serial_format",
         Return(parse_complex_serial_format(args.serial_number)))

CallParseSerialNumberFormat ==
    Call("parse_serial_number_format",
         Return(parse_serial_number_format(args.serial_number)))

NextParse == CallParseSimple \/ CallParseComplex \/ CallParseSerialNumberFormat

SpecParse == InitParse /\ [][NextParse]_vars

(***************************************************************************)
(* Whole requests: a template's create_multi_level_pdfs is applied to the  *)
(* data and parameters of a request; its outcome is the exception raised   *)
(* (if any), and the label files written with the number of labels in each.*)
(***************************************************************************)
\* len(range(1, total + 1))
RangeLen(total) == IF total > 0 THEN total ELSE 0

RequestOutcome(raised, total_large_boxes, labels) ==
    [raised |-> raised, total_large_boxes |-> total_large_boxes,
     labels |-> labels]

NoFiles == [f \in {} |-> 0]

\* the box-label file, written when params["是否有盒标"] is set
BoxLabelFile(has_box_label, total_boxes) ==
    IF has_box_label THEN [f \in {"box"} |-> RangeLen(total_boxes)]
    ELSE NoFiles

\* RegularTemplate._create_three_level_pdfs
RegularCreateThreeLevelPdfs(tp, ppb, bpsb, sbplb, has_box_label) ==
    IF ppb = 0 \/ bpsb = 0 \/ sbplb = 0
    THEN RequestOutcome("ZeroDivisionError", 0, NoFiles)
    ELSE LET total_boxes == MathCeilDiv(tp, ppb)
             total_small_boxes == MathCeilDiv(total_boxes, bpsb)
             total_large_boxes == MathCeilDiv(total_small_boxes, sbplb)
         IN  RequestOutcome("", total_large_boxes,
                 BoxLabelFile(has_box_label, total_boxes)
                 @@ [f \in {"small_box", "large_box"} |->
                        IF f = "small_box" THEN RangeLen(total_small_boxes)
                        ELSE RangeLen(total_large_boxes)])

\* NestedBoxTemplate._create_normal_pdfs: the large-box label file is written
\* by _create_nested_large_box_label, which computes the number of large
\* boxes again, always through the small-box level
NestedCreateNormalPdfs(tp, ppb, bpsb, sbplb, has_small_box, has_box_label) ==
    IF ppb = 0 \/ bpsb = 0 \/ (has_small_box /\ sbplb = 0)
    THEN RequestOutcome("ZeroDivisionError", 0, NoFiles)
    ELSE LET total_boxes == MathCeilDiv(tp, ppb)
             total_small_boxes == MathCeilDiv(total_boxes, bpsb)
             total_large_boxes ==
                 IF has_small_box THEN MathCeilDiv(total_small_boxes, sbplb)
                 ELSE MathCeilDiv(total_boxes, bpsb)
             small_file ==
                 IF has_small_box
                 THEN [f \in {"small_box"} |-> RangeLen(total_small_boxes)]
                 ELSE NoFiles
             before_large ==
                 BoxLabelFile(has_box_label, total_boxes) @@ small_file
         IN  IF sbplb = 0
             THEN RequestOutcome("ZeroDivisionError", total_large_boxes,
                                 before_large)
             ELSE RequestOutcome("", total_large_boxes,
                      before_large
                      @@ [f \in {"large_box"} |->
                             RangeLen(MathCeilDiv(total_small_boxes, sbplb))])

InitRequest ==
    /\ pc = "ready"
    /\ total_pieces \in 1 .. MaxPieces
    /\ pieces_per_box \in 1 .. Min(MaxPerBox, total_pieces)
    /\ boxes_per_small_box \in -1 .. MaxRatio
    /\ small_boxes_per_large_box \in {PyInt(v) : v \in -1 .. MaxRatio}
    /\ base_number = <<>>
    /\ processor = "none"
    /\ quantities = NoResult
    /\ num = 0
    /\ label = NoLabel
    /\ pieces_sum = 0
    /\ args \in [has_small_box : BOOLEAN, has_box_label : BOOLEAN]
    /\ result = NoResult
    /\ instances = ModuleInstances
    /\ threads = NoThreads

\* RegularTemplate.create_multi_level_pdfs, request with a small-box level
RegularRequest ==
    /\ args.has_small_box
    /\ Call("regular_create_multi_level_pdfs",
            RegularCreateThreeLevelPdfs(total_pieces, pieces_per_box,
                boxes_per_small_box, small_boxes_per_large_box.val,
                args.has_box_label))

\* NestedBoxTemplate.create_multi_level_pdfs, request not marked overweight
NestedNormalRequest ==
    Call("nested_create_multi_level_pdfs",
         NestedCreateNormalPdfs(total_pieces, pieces_per_box,
             boxes_per_small_box, small_boxes_per_large_box.val,
             args.has_small_box, args.has_box_label))

NextRequest == RegularRequest \/ NestedNormalRequest

SpecRequest == InitRequest /\ [][NextRequest]_vars

(***************************************************************************)
(* Specification of callers sharing the module-level processor instances:  *)
(* two threads, each with its own arguments, call one operation of a       *)
(* shared instance again and again.  An invocation advances one statement  *)
(* group at a time and the threads interleave between the groups.  The     *)
(* locals of an invocation (i, start_box_in_set, boxes_in_current_box,     *)
(* total_boxes) belong to its thread; self is the shared instance.         *)
(***************************************************************************)
ThreadIds == {1, 2}

QuantityArgs ==
    [total_pieces : 1 .. MaxPieces, pieces_per_box : {2},
     boxes_per_small_box : {2}, small_boxes_per_large_box : {2}]

OverweightArgs ==
    { a \in [base_number : {<<"J", "A", "W", "0", "1", "0", "0", "1", "-", "0", "1">>},
             set_num : {2}, box_in_set : 1 .. MaxRatio,
             boxes_per_set : {MaxRatio + 1, MaxRatio + 2},
             boxes_per_large_box : 1 .. MaxRatio] :
        a.box_in_set <= a.boxes_per_large_box }

ParseArgs == [serial_number : {<<"a", "b", "1", "2">>, <<"X", "Y", "Z">>}]

\* a thread that has not called yet
IdleThread(op, a) ==
    [op |-> op, args |-> a, pc |-> "idle", i |-> 0, start_box_in_set |-> 0,
     boxes_in_current_box |-> 0, total_boxes |-> 0, result |-> NoResult,
     first |-> NoResult, overlapped |-> FALSE]

ThreadInputs ==
    { IdleThread("calculate_multi_level_quantities", a) : a \in QuantityArgs }
    \cup { IdleThread("generate_overweight_serial_range", a) : a \in OverweightArgs }
    \cup { IdleThread("parse_serial_number_format", a) : a \in ParseArgs }

\* the shared instance an operation is called on
InstanceOf(op) ==
    IF op = "generate_overweight_serial_range" THEN "nested" ELSE "split"

InFlight(th) == th.pc \notin {"idle", "done"}

\* the call: fresh locals, nothing computed yet
Invoke(th) ==
    [th EXCEPT !.pc = "entered", !.i = 0, !.start_box_in_set = 0,
               !.boxes_in_current_box = 0, !.total_boxes = 0,
               !.result = NoResult, !.overlapped = FALSE]

\* a variant that keeps the last total_boxes on the instance
StepCalculateMultiLevelQuantities_Cached(self, th) ==
    IF th.pc = "entered"
    THEN LET n == MathCeilDiv(th.args.total_pieces, th.args.pieces_per_box) IN
         [self |-> [template_type |-> self.template_type, total_boxes |-> n],
          th |-> [th EXCEPT !.total_boxes = n, !.pc = "total_boxes"]]
    ELSE LET total_small_boxes ==
                 MathCeilDiv(self.total_boxes, th.args.boxes_per_small_box)
         IN  [self |-> self,
              th |-> [th EXCEPT !.pc = "done", !.result =
                  Return([total_pieces |-> th.args.total_pieces,
                          total_boxes |-> self.total_boxes,
                          total_small_boxes |-> total_small_boxes,
                          total_large_boxes |->
                              MathCeilDiv(total_small_boxes,
                                          th.args.small_boxes_per_large_box),
                          pieces_per_box |-> th.args.pieces_per_box,
                          boxes_per_small_box |-> th.args.boxes_per_small_box,
                          small_boxes_per_large_box |->
                              th.args.small_boxes_per_large_box])]]

\* SplitBoxDataProcessor.calculate_multi_level_quantities with four integer
\* arguments, one statement group per step: total_boxes, then the
\* three-level branch and its return; self is read by neither
StepCalculateMultiLevelQuantities(self, th) ==
    IF th.pc = "entered"
    THEN [self |-> self,
          th |-> [th EXCEPT !.total_boxes =
                      MathCeilDiv(th.args.total_pieces, th.args.pieces_per_box),
                  !.pc = "total_boxes"]]
    ELSE LET total_small_boxes ==
                 MathCeilDiv(th.total_boxes, th.args.boxes_per_small_box)
         IN  [self |-> self,
              th |-> [th EXCEPT !.pc = "done", !.result =
                  Return([total_pieces |-> th.args.total_pieces,
                          total_boxes |-> th.total_boxes,
                          total_small_boxes |-> total_small_boxes,
                          total_large_boxes |->
                              MathCeilDiv(total_small_boxes,
                                          th.args.small_boxes_per_large_box),
                          pieces_per_box |-> th.args.pieces_per_box,
                          boxes_per_small_box |-> th.args.boxes_per_small_box,
                          small_boxes_per_large_box |->
                              th.args.small_boxes_per_large_box])]]

\* a variant that accumulates start_box_in_set in an attribute of the instance
StepGenerateOverweightSerialRange_SharedAccumulator(self, th) ==
    LET a == th.args
        acc == [template_type |-> self.template_type,
                start_box_in_set |-> 0]
    IN  CASE th.pc = "entered" ->
                 [self |-> acc,
                  th |-> [th EXCEPT !.boxes_in_current_box =
                              calculate_overweight_box_distribution(
                                  a.boxes_per_set, a.boxes_per_large_box,
                                  a.box_in_set).value,
                          !.i = 1, !.pc = "loop"]]
          [] th.pc = "loop" /\ th.i < a.box_in_set ->
                 [self |-> [acc EXCEPT !.start_box_in_set =
                               self.start_box_in_set
                               + calculate_overweight_box_distribution(
                                     a.boxes_per_set, a.boxes_per_large_box,
                                     th.i).value],
                  th |-> [th EXCEPT !.i = th.i + 1]]
          [] th.pc = "loop" /\ th.i >= a.box_in_set ->
                 [self |-> [acc EXCEPT !.start_box_in_set =
                               self.start_box_in_set + 1],
                  th |-> [th EXCEPT !.pc = "format"]]
          [] OTHER ->
                 [self |-> self,
                  th |-> [th EXCEPT !.pc = "done", !.result =
                      OverweightSerialRangeOf(a.base_number, a.set_num,
                          a.box_in_set, self.start_box_in_set,
                          th.boxes_in_current_box)]]

\* NestedBoxDataProcessor.generate_overweight_serial_range, one statement
\* group per step: boxes_in_current_box and start_box_in_set = 0; one
\* iteration of "for i in range(1, box_in_set)"; the += 1 after the loop; the
\* formatting and the return.  self is used only to call
\* calculate_overweight_box_distribution
StepGenerateOverweightSerialRange(self, th) ==
    LET a == th.args IN
    CASE th.pc = "entered" ->
             [self |-> self,
              th |-> [th EXCEPT !.boxes_in_current_box =
                          calculate_overweight_box_distribution(
                              a.boxes_per_set, a.boxes_per_large_box,
                              a.box_in_set).value,
                      !.start_box_in_set = 0, !.i = 1, !.pc = "loop"]]
      [] th.pc = "loop" /\ th.i < a.box_in_set ->
             [self |-> self,
              th |-> [th EXCEPT !.start_box_in_set =
                          th.start_box_in_set
                          + calculate_overweight_box_distribution(
                                a.boxes_per_set, a.boxes_per_large_box,
                                th.i).value,
                      !.i = th.i + 1]]
      [] th.pc = "loop" /\ th.i >= a.box_in_set ->
             [self |-> self,
              th |-> [th EXCEPT !.start_box_in_set = th.start_box_in_set + 1,
                      !.pc = "format"]]
      [] OTHER ->
             [self |-> self,
              th |-> [th EXCEPT !.pc = "done", !.result =
                  OverweightSerialRangeOf(a.base_number, a.set_num,
                      a.box_in_set, th.start_box_in_set,
                      th.boxes_in_current_box)]]

\* SplitBoxDataProcessor.parse_serial_number_format: one call of
\* parse_complex_serial_format
StepParseSerialNumberFormat(self, th) ==
    [self |-> self,
     th |-> [th EXCEPT !.pc = "done", !.result =
                 Return(parse_complex_serial_format(th.args.serial_number))]]

\* the value the caller receives: the first one is remembered
ReturnToCaller(th) ==
    [th EXCEPT !.pc = "idle",
               !.first = IF th.first = NoResult THEN th.result ELSE th.first]

OtherInFlight(t) == \E u \in ThreadIds \ {t} : InFlight(threads[u])

\* thread t moves to th while self becomes the instance it works on
ThreadMoves(t, next) ==
    /\ threads' = [threads EXCEPT ![t] =
           [next.th EXCEPT !.overlapped =
               threads[t].overlapped \/ OtherInFlight(t)]]
    /\ instances' = [instances EXCEPT ![InstanceOf(threads[t].op)] = next.self]
    /\ UNCHANGED <<pc, total_pieces, pieces_per_box, boxes_per_small_box,
                   small_boxes_per_large_box, base_number, processor,
                   quantities, num, label, pieces_sum, args, result>>

InitShared ==
    /\ pc = "ready"
    /\ NoRequest
    /\ args = NoArgs
    /\ result = NoResult
    /\ instances = ModuleInstances
    /\ threads \in [ThreadIds -> ThreadInputs]

ThreadInvokes(t) ==
    /\ threads[t].pc = "idle"
    /\ ThreadMoves(t, [self |-> instances[InstanceOf(threads[t].op)],
                       th |-> Invoke(threads[t])])

ThreadCalculatesQuantities(t) ==
    /\ threads[t].op = "calculate_multi_level_quantities"
    /\ InFlight(threads[t])
    /\ ThreadMoves(t, StepCalculateMultiLevelQuantities(
                          instances[InstanceOf(threads[t].op)], threads[t]))

ThreadGeneratesOverweightRange(t) ==
    /\ threads[t].op = "generate_overweight_serial_range"
    /\ InFlight(threads[t])
    /\ ThreadMoves(t, StepGenerateOverweightSerialRange(
                          instances[InstanceOf(threads[t].op)], threads[t]))

ThreadParses(t) ==
    /\ threads[t].op = "parse_serial_number_format"
    /\ InFlight(threads[t])
    /\ ThreadMoves(t, StepParseSerialNumberFormat(
                          instances[InstanceOf(threads[t].op)], threads[t]))

ThreadReturns(t) ==
    /\ threads[t].pc = "done"
    /\ ThreadMoves(t, [self |-> instances[InstanceOf(threads[t].op)],
                       th |-> ReturnToCaller(threads[t])])

NextShared ==
    \E t \in ThreadIds :
        \/ ThreadInvokes(t)
        \/ ThreadCalculatesQuantities(t)
        \/ ThreadGeneratesOverweightRange(t)
        \/ ThreadParses(t)
        \/ ThreadReturns(t)

SpecShared == InitShared /\ [][NextShared]_vars

(***************************************************************************)
(* Claims about the quantity computation (checked under SpecQty).          *)
(***************************************************************************)
\* c is the integer ceiling of a / b, for b > 0, stated without division
IsCeilOf(c, a, b) == c * b >= a /\ (c - 1) * b < a

Processors == {"base", "regular", "split"}

\* C1: for total_pieces > 0 and pieces_per_box > 0 every quantity computation
\* that returns gives total_boxes = ceil(total_pieces / pieces_per_box);
\* 1057 pieces at 50 per box give 22 boxes.
C1_TotalBoxesIsCeiling ==
    (pc = "done" /\ total_pieces > 0 /\ pieces_per_box > 0
        /\ Returned(quantities))
    => /\ IsCeilOf(quantities.value.total_boxes, total_pieces, pieces_per_box)
       /\ (total_pieces = 1057 /\ pieces_per_box = 50
              => quantities.value.total_boxes = 22)

\* C1 witness: scenario A computed by the base processor, last box underfilled
C1_Witness ==
    /\ pc = "done" /\ processor = "base" /\ Returned(quantities)
    /\ total_pieces = 1057 /\ pieces_per_box = 50
    /\ quantities.value.total_boxes = 22

ThreeLevelPositive ==
    /\ total_pieces > 0 /\ pieces_per_box > 0 /\ boxes_per_small_box > 0
    /\ small_boxes_per_large_box.kind = "int"
    /\ small_boxes_per_large_box.val > 0

\* C2: in three-level mode with positive inputs the computation returns
\* total_small_boxes = ceil(total_boxes / boxes_per_small_box) and
\* total_large_boxes = ceil(total_small_boxes / small_boxes_per_large_box).
C2_ThreeLevelCascade ==
    (pc = "done" /\ ThreeLevelPositive)
    => /\ Returned(quantities)
       /\ IsCeilOf(quantities.value.total_boxes, total_pieces, pieces_per_box)
       /\ IsCeilOf(quantities.value.total_small_boxes,
                   quantities.value.total_boxes, boxes_per_small_box)
       /\ IsCeilOf(quantities.value.total_large_boxes,
                   quantities.value.total_small_boxes,
                   small_boxes_per_large_box.val)

\* C2 witness: scenario B (22 boxes, 5 per small box, 10 small boxes per large
\* box): 5 small boxes, 1 large box
C2_Witness ==
    /\ pc = "done" /\ processor = "base" /\ Returned(quantities)
    /\ total_pieces = 1057 /\ pieces_per_box = 50
    /\ boxes_per_small_box = 5 /\ small_boxes_per_large_box = PyInt(10)
    /\ quantities.value.total_boxes = 22
    /\ quantities.value.total_small_boxes = 5
    /\ quantities.value.total_large_boxes = 1

\* C3: with small_boxes_per_large_box omitted, the computation of every data
\* processor (base, regular, split) succeeds and returns total_large_boxes =
\* ceil(total_boxes / boxes_per_small_box) with no small-box level.
C3_TwoLevelEveryProcessor ==
    (pc = "done" /\ processor \in Processors
        /\ small_boxes_per_large_box.kind = "omitted"
        /\ total_pieces > 0 /\ pieces_per_box > 0 /\ boxes_per_small_box > 0)
    => /\ Returned(quantities)
       /\ "total_small_boxes" \notin DOMAIN quantities.value
       /\ IsCeilOf(quantities.value.total_large_boxes,
                   quantities.value.total_boxes, boxes_per_small_box)

\* the true count in the last container: the capacity when the lower total
\* divides evenly, else the remainder
LastContainerCount(lower, capacity) ==
    IF lower % capacity = 0 THEN capacity ELSE lower % capacity

\* C4: the remainder fields of the regular quantity computation are the true
\* counts in the last container of each level, never 0 for positive inputs.
C4_RemaindersAreLastContainerCounts ==
    (pc = "done" /\ processor \in {"regular", "regular_template"}
        /\ ThreeLevelPositive /\ Returned(quantities))
    => LET q == quantities.value IN
       /\ q.remaining_pieces_in_last_box =
              LastContainerCount(total_pieces, pieces_per_box)
       /\ q.remaining_boxes_in_last_small_box =
              LastContainerCount(q.total_boxes, boxes_per_small_box)
       /\ q.remaining_small_boxes_in_last_large_box =
              LastContainerCount(q.total_small_boxes,
                                 small_boxes_per_large_box.val)
       /\ q.remaining_pieces_in_last_box > 0
       /\ q.remaining_boxes_in_last_small_box > 0
       /\ q.remaining_small_boxes_in_last_large_box > 0

(***************************************************************************)
(* Claims about the labels and serial numbers (checked under SpecLabels).  *)
(***************************************************************************)
\* reading a serial back from its right end: the trailing number, and the
\* text before "-<trailing number>"
TrailRunStart(s) ==
    SetMin({i \in 1 .. Len(s) + 1 : \A j \in i .. Len(s) : IsDigit(s[j])})
TrailNat(s) == StrToNat(SubSeq(s, TrailRunStart(s), Len(s)))
BeforeSuffix(s) == SubSeq(s, 1, TrailRunStart(s) - 2)

\* C5: the pieces printed on all labels of one level (small-box labels, or
\* large-box labels) add up to total_pieces exactly.
C5_LabelPiecesSumToTotal ==
    (\/ pc \in {"regular_small", "nested_small"} /\ num = TotalSmallBoxes
     \/ pc \in {"regular_large", "nested_large"} /\ num = TotalLargeBoxes
     \/ pc = "regular_two_level" /\ num = TotalTwoLevelLargeBoxes)
    => pieces_sum = total_pieces

SmallBoxRangeLoops == {"regular_small", "split_small", "nested_small"}

\* the range of the label was built from a start and an end box index
HasSpan == pc = "nested_small" => label.matched

\* C6: at the small-box level, for every container 1 .. total and every
\* strategy (linear, grouped split, nested), with total_boxes supplied the
\* end box index of the range is >= the start box index and <= total_boxes.
C6_EndBoxClamped ==
    (pc \in SmallBoxRangeLoops /\ HasSpan)
    => /\ label.start_item = (num - 1) * boxes_per_small_box + 1
       /\ label.start_item <= label.end_item
       /\ label.end_item <= TotalBoxes

\* C6 witness: the last small box is partially filled and its range ends at
\* total_boxes, below the unclamped end
C6_Witness ==
    /\ pc = "nested_small" /\ label.matched
    /\ num = TotalSmallBoxes
    /\ TotalBoxes % boxes_per_small_box # 0
    /\ label.end_item = TotalBoxes
    /\ label.end_item < num * boxes_per_small_box

C7_MainIsStartPlusOffset ==
    pc = "linear_number"
    => TrailNat(label.serial) =
           parse_simple_serial_format(base_number).start_number + (num - 1)

C7_NextBoxIsPlusOne ==
    (pc = "linear_number" /\ pc' = "linear_number")
    => /\ num' = num + 1
       /\ TrailNat(label'.serial) = TrailNat(label.serial) + 1

\* C7: linear strategy: the serial of box n has main number start_number +
\* (n - 1); box 1 carries the parsed start number and consecutive boxes
\* increase by exactly 1.
C7_LinearMainNumbers ==
    [](C7_MainIsStartPlusOffset) /\ [][C7_NextBoxIsPlusOne]_vars

\* C7 witness: the third box of start serial A98 is A100
C7_Witness ==
    /\ pc = "linear_number" /\ num = 3
    /\ base_number = <<"A", "9", "8">>
    /\ label.serial = <<"A", "1", "0", "0">>

RegularRangeLoops == {"regular_small", "regular_large", "regular_two_level"}

FirstSerialOfLabel == generate_linear_serial_number(LabelBaseNumber, label.start_item)
LastSerialOfLabel == generate_linear_serial_number(LabelBaseNumber, label.end_item)

\* C8 as claimed: linear_range renders a single serial when the clamped span
\* holds exactly one box, and "first-last" otherwise.
C8_SingleValueWhenCollapsed ==
    pc \in RegularRangeLoops
    => label.serial = IF label.start_item = label.end_item
                      THEN FirstSerialOfLabel
                      ELSE FirstSerialOfLabel \o <<"-">> \o LastSerialOfLabel

\* C8 amended: linear_range always renders "first-last", also when the
\* clamped span holds exactly one box (the same serial twice).
C8_AlwaysFirstDashLast ==
    pc \in RegularRangeLoops
    => label.serial = FirstSerialOfLabel \o <<"-">> \o LastSerialOfLabel

\* C8 witness: a small box holding one box, rendered as the serial twice
C8_Witness ==
    /\ pc = "regular_small"
    /\ label.start_item = label.end_item
    /\ base_number = <<"D", "S", "K", "0", "0", "0", "0", "1">>
    /\ label.serial = FirstSerialOfLabel \o <<"-">> \o FirstSerialOfLabel

\* boxes per large box of the running regular large-box loop
RegularLargeCapacity ==
    IF pc = "regular_two_level" THEN boxes_per_small_box
    ELSE boxes_per_small_box * small_boxes_per_large_box.val

\* C9: the regular large-box range of large box L runs from the serial of box
\* (L-1)*capacity + 1 to the serial of box min(L*capacity, total_boxes).
C9_LargeBoxRangeIsItsBoxes ==
    pc \in {"regular_large", "regular_two_level"}
    => label.serial =
           generate_linear_serial_number(LabelBaseNumber,
               (num - 1) * RegularLargeCapacity + 1)
           \o <<"-">>
           \o generate_linear_serial_number(LabelBaseNumber,
               Min(num * RegularLargeCapacity, TotalBoxes))

GroupSize == boxes_per_small_box * small_boxes_per_large_box.val
SerialSuffix(s) == TrailNat(s)
SerialMain(s) == TrailNat(BeforeSuffix(s))

C10_MainAndSuffix ==
    pc = "split_number"
    => /\ SerialMain(label.serial) =
              parse_complex_serial_format(base_number).main_number
                  + ((num - 1) \div GroupSize)
       /\ SerialSuffix(label.serial) = ((num - 1) % GroupSize) + 1
       /\ (num <= GroupSize =>
              SerialMain(label.serial) =
                  parse_complex_serial_format(base_number).main_number)
       /\ (base_number = <<"D", "S", "K", "0", "0", "0", "0", "1", "-", "0", "1">>
              /\ GroupSize = 3 /\ num = 1
           => label.serial = <<"D", "S", "K", "0", "0", "0", "0", "1", "-", "0", "1">>)
       /\ (base_number = <<"D", "S", "K", "0", "0", "0", "0", "1", "-", "0", "1">>
              /\ GroupSize = 3 /\ num = 4
           => label.serial = <<"D", "S", "K", "0", "0", "0", "0", "2", "-", "0", "1">>)

C10_SuffixCyclesThenMainSteps ==
    (pc = "split_number" /\ pc' = "split_number")
    => IF SerialSuffix(label.serial) < GroupSize
       THEN /\ SerialSuffix(label'.serial) = SerialSuffix(label.serial) + 1
            /\ SerialMain(label'.serial) = SerialMain(label.serial)
       ELSE /\ SerialSuffix(label'.serial) = 1
            /\ SerialMain(label'.serial) = SerialMain(label.serial) + 1

\* C10: grouped strategy (split): box index b (0-based) with group size g has
\* main number base_main + b // g and suffix (b % g) + 1; over consecutive
\* boxes the suffix runs 1..g, then resets to 1 while the main number grows
\* by 1; DSK00001-01 with g = 3 gives DSK00001-01 then DSK00002-01 at index 3.
C10_GroupedRollover ==
    [](C10_MainAndSuffix) /\ [][C10_SuffixCyclesThenMainSteps]_vars

\* C10 witness: scenario C, box index 3 rolls over to DSK00002-01
C10_Witness ==
    /\ pc = "split_number" /\ num = 4 /\ GroupSize = 3
    /\ base_number = <<"D", "S", "K", "0", "0", "0", "0", "1", "-", "0", "1">>
    /\ label.serial = <<"D", "S", "K", "0", "0", "0", "0", "2", "-", "0", "1">>

\* C11: the split large-box range of large box L is "first-last" with first
\* the grouped serial of box (L-1)*boxes_per_small_box*small_boxes_per_large_box
\* + 1 and last the grouped serial of the last box of L after clamping to
\* total_boxes: the strings generate_grouped_serial_number gives for those boxes.
C11_SplitLargeRangeIsItsBoxes ==
    pc = "split_large"
    => label.serial =
           generate_grouped_serial_number(base_number,
               (num - 1) * GroupSize + 1, GroupSize).value
           \o <<"-">>
           \o generate_grouped_serial_number(base_number,
               Min(num * GroupSize, TotalBoxes), GroupSize).value

(***************************************************************************)
(* Claims about direct calls of the grouped operations (SpecGrouped).      *)
(***************************************************************************)
\* C12: with group_size <= 0 the grouped serial number and the grouped range
\* do not fail: they return what they return for group_size = 2.
C12_NonPositiveGroupSizeDefaultsToTwo ==
    pc # "ready" /\ args.group_size <= 0
    => /\ pc = "generate_grouped_serial_number"
          => result = generate_grouped_serial_number(args.base_number,
                          args.container_num, 2)
       /\ pc = "generate_grouped_serial_range"
          => result = generate_grouped_serial_range(args.base_number,
                          args.container_num, args.items_per_container, 2,
                          args.total_items)

(***************************************************************************)
(* Claims about the overweight distribution (SpecOverweight).              *)
(***************************************************************************)
\* the call was made for a position of a set with at least one container
DistributionCalled ==
    /\ pc \in {"calculate_overweight_distribution",
                "calculate_overweight_box_distribution"}
    /\ args.sets_per_container >= 1
    /\ args.item_in_container <= args.sets_per_container

\* the allocation of position k of the set the call was made for
Alloc(k) ==
    calculate_overweight_distribution(args.items_per_set,
        args.sets_per_container, k).value

\* the allocations of the positions 1 .. k other than the called one
RECURSIVE OthersSum(_)
OthersSum(k) ==
    IF k = 0 THEN 0
    ELSE OthersSum(k - 1)
         + (IF k = args.item_in_container THEN 0 ELSE Alloc(k))

\* C13: overweight distribution conserves items: for items_per_set >= 0 and
\* containers_per_set >= 1 the allocations of the positions 1 ..
\* containers_per_set add up to items_per_set.
C13_DistributionConservesItems ==
    DistributionCalled
    => /\ Returned(result)
       /\ result.value + OthersSum(args.sets_per_container)
              = args.items_per_set

\* C13 witness: 7 items over 3 containers, position 1 receives 3
C13_Witness ==
    /\ pc = "calculate_overweight_distribution"
    /\ args = [items_per_set |-> 7, sets_per_container |-> 3,
               item_in_container |-> 1]
    /\ result = Return(3)

\* quotient and remainder of items_per_set by the number of containers,
\* stated without division
IsQuotRem(b, r) ==
    /\ b * args.sets_per_container + r = args.items_per_set
    /\ 0 <= r /\ r < args.sets_per_container

\* C14: the distribution is the front-loaded balanced partition: positions
\* 1..r receive base + 1 and the others base; two allocations differ by at
\* most 1 and the sequence is non-increasing; 7 over 3 gives [3,2,2].
C14_FrontLoadedBalanced ==
    DistributionCalled
    => /\ \E b \in 0 .. args.items_per_set, r \in 0 .. args.items_per_set :
              /\ IsQuotRem(b, r)
              /\ result = Return(IF args.item_in_container <= r
                                 THEN b + 1 ELSE b)
       /\ \A j \in 1 .. args.sets_per_container :
              /\ Alloc(j) - result.value \in {-1, 0, 1}
              /\ j < args.item_in_container => Alloc(j) >= result.value
       /\ (args.items_per_set = 7 /\ args.sets_per_container = 3)
              => result.value = (IF args.item_in_container = 1 THEN 3 ELSE 2)

\* C14 witness: 7 boxes over 3 large boxes, position 2 receives 2
C14_Witness ==
    /\ pc = "calculate_overweight_box_distribution"
    /\ args = [items_per_set |-> 7, sets_per_container |-> 3,
               item_in_container |-> 2]
    /\ result = Return(2)

(***************************************************************************)
(* Claims about the overweight large-box labels (SpecLabels).              *)
(***************************************************************************)
\* reading a printed range "first-last" of two main-suffix serials back: the
\* dash in the middle is the second of its three dashes
MiddleDash(s) ==
    LET ds == {i \in 1 .. Len(s) : s[i] = "-"}
    IN  SetMin(ds \ {SetMin(ds)})
RangeFirst(s) == SubSeq(s, 1, MiddleDash(s) - 1)
RangeLast(s) == SubSeq(s, MiddleDash(s) + 1, Len(s))

\* an overweight label whose start serial has a main number and a suffix
OverweightMatched == pc = "overweight_large" /\ label.matched

\* allocation of large box k of a set, and the boxes before large box k
OverweightAlloc(k) ==
    calculate_overweight_distribution(boxes_per_small_box,
        small_boxes_per_large_box.val, k).value
RECURSIVE AllocBefore(_)
AllocBefore(k) ==
    IF k <= 1 THEN 0 ELSE AllocBefore(k - 1) + OverweightAlloc(k - 1)

C15_SuffixRangeOfContainer ==
    OverweightMatched
    => LET k == label.box_in_set
           first == RangeFirst(label.serial)
           last == RangeLast(label.serial)
           s_k == SerialSuffix(LabelBaseNumber) + AllocBefore(k)
       IN  /\ label.set_num = ((num - 1) \div small_boxes_per_large_box.val) + 1
           /\ k = ((num - 1) % small_boxes_per_large_box.val) + 1
           /\ SerialSuffix(first) = s_k
           /\ SerialSuffix(last) = s_k + OverweightAlloc(k) - 1
           /\ SerialMain(first) = SerialMain(LabelBaseNumber) + (label.set_num - 1)
           /\ SerialMain(last) = SerialMain(first)
           /\ k = 1 => SerialSuffix(first) = SerialSuffix(LabelBaseNumber)
           /\ k = small_boxes_per_large_box.val
                  => SerialSuffix(last) = SerialSuffix(LabelBaseNumber)
                                              + boxes_per_small_box - 1

C15_NextContainerContinues ==
    (OverweightMatched /\ pc' = "overweight_large")
    => IF label'.set_num = label.set_num
       THEN /\ label'.box_in_set = label.box_in_set + 1
            /\ SerialSuffix(RangeFirst(label'.serial))
                   = SerialSuffix(RangeLast(label.serial)) + 1
            /\ SerialMain(RangeFirst(label'.serial))
                   = SerialMain(RangeFirst(label.serial))
       ELSE /\ label'.set_num = label.set_num + 1
            /\ label'.box_in_set = 1
            /\ SerialSuffix(RangeFirst(label'.serial))
                   = SerialSuffix(LabelBaseNumber)
            /\ SerialMain(RangeFirst(label'.serial))
                   = SerialMain(RangeFirst(label.serial)) + 1

C16_OverweightClamped ==
    pc = "overweight_large"
    => /\ (label.set_num - 1) * boxes_per_small_box + label.end_box_in_set
              <= TotalBoxes
       /\ num = TotalOverweightLargeBoxes
              => pieces_sum = TotalBoxes * pieces_per_box

(***************************************************************************)
(* Claims about the parsers (SpecParse).                                   *)
(***************************************************************************)
HasDigit(s) == FirstDigitPos(s) # 0
FirstRun(s) == SubSeq(s, FirstDigitPos(s), DigitRunEnd(s, FirstDigitPos(s)) - 1)
\* "-<digit>" follows the first digit run of s directly
SuffixFollowsFirstRun(s) ==
    LET j == DigitRunEnd(s, FirstDigitPos(s)) IN
    j + 1 <= Len(s) /\ s[j] = "-" /\ IsDigit(s[j + 1])

\* C17: for every string with a digit, parse_serial_number_format returns the
\* characters before the first digit as prefix (possibly empty), the value of
\* the first maximal digit run as main_number, and reports a suffix only when
\* "-<digits>" follows that first run directly.
C17_PrefixBeforeFirstDigit ==
    (pc = "parse_serial_number_format" /\ HasDigit(args.serial_number))
    => /\ result.value.prefix
              = SubSeq(args.serial_number, 1,
                       FirstDigitPos(args.serial_number) - 1)
       /\ result.value.main_number = StrToNat(FirstRun(args.serial_number))
       /\ result.value.has_suffix
              => SuffixFollowsFirstRun(args.serial_number)

\* the main number and the suffix of a parsed format, whatever the profile
\* calls them; -1 when the format has none
MainNumberOf(v) ==
    IF "main_number" \in DOMAIN v THEN v.main_number ELSE v.start_number
SuffixOf(v) == IF "suffix" \in DOMAIN v THEN v.suffix ELSE -1

ParserCalled ==
    pc \in {"parse_simple_serial_format", "parse_complex_serial_format",
            "parse_serial_number_format"}

\* C18 as claimed: every parsing profile (simple, complex, general) never
\* raises and, on a string with no digit run, returns the default format with
\* prefix "DSK", main number 1001 and suffix 1.
C18_SameDefaultEveryProfile ==
    ParserCalled
    => /\ Returned(result)
       /\ ~HasDigit(args.serial_number)
              => /\ result.value.prefix = DSK
                 /\ MainNumberOf(result.value) = 1001
                 /\ SuffixOf(result.value) = 1

\* C18 amended: every parsing profile never raises and, on a string with no
\* digit run, returns its own default: the general profile prefix "DSK", main
\* number 1001 and suffix 1; the complex profile prefix "DSK" and main number
\* 1001 without a suffix; the simple profile prefix "DSK", start number 1 and
\* width 5.
C18_DefaultOfEachProfile ==
    ParserCalled
    => /\ Returned(result)
       /\ ~HasDigit(args.serial_number)
              => /\ result.value.prefix = DSK
                 /\ pc = "parse_serial_number_format"
                        => /\ result.value.main_number = 1001
                           /\ result.value.suffix = 1
                           /\ result.value.has_suffix
                 /\ pc = "parse_complex_serial_format"
                        => /\ result.value.main_number = 1001
                           /\ SuffixOf(result.value) = -1
                 /\ pc = "parse_simple_serial_format"
                        => /\ result.value.start_number = 1
                           /\ result.value.digits = 5
                           /\ SuffixOf(result.value) = -1

\* C18 witness: the simple profile on "A-b", a string without a digit
C18_Witness ==
    /\ pc = "parse_simple_serial_format"
    /\ args.serial_number = <<"A", "-", "b">>
    /\ result = Return([prefix |-> DSK, start_number |-> 1, digits |-> 5])

\* C19: the parser records main_digits as the length of the main digit run it
\* parsed and suffix_digits as the length of the suffix run it parsed (the
\* widths the generated serials are padded to).
C19_RecordedWidthsAreRunLengths ==
    (pc = "parse_serial_number_format"
        /\ PrefixedDigitPos(args.serial_number) # 0)
    => LET s == args.serial_number
           i == IF MainSuffixPos(s) # 0 THEN MainSuffixPos(s)
                ELSE PrefixedDigitPos(s)
           j == DigitRunEnd(s, i)
       IN  /\ result.value.main_digits = j - i
           /\ result.value.has_suffix
                  => result.value.suffix_digits = DigitRunEnd(s, j + 1) - (j + 1)

(***************************************************************************)
(* Claims about invalid configurations (SpecQty).                          *)
(***************************************************************************)
\* C20: the quantity computation reports an error to its caller whenever
\* pieces_per_box <= 0 or pieces_per_box > total_pieces; it never returns a
\* quantity result for such inputs.
C20_InvalidPiecesPerBoxRejected ==
    (pc = "done" /\ (pieces_per_box <= 0 \/ pieces_per_box > total_pieces))
    => ~Returned(quantities)

(***************************************************************************)
(* Claims about whole requests (SpecRequest).                              *)
(***************************************************************************)
\* C21: if a packaging ratio (boxes_per_small_box or small_boxes_per_large_box)
\* is <= 0, the request halts with an error surfaced to the caller and no
\* label file, not even an empty one, is written.
C21_NonPositiveRatioHaltsRequest ==
    (pc = "regular_create_multi_level_pdfs"
        /\ (boxes_per_small_box <= 0 \/ small_boxes_per_large_box.val <= 0))
    => /\ ~Returned(result)
       /\ DOMAIN result.labels = {}

(***************************************************************************)
(* Claims about carton numbers (SpecLabels).                               *)
(***************************************************************************)
\* the two numbers of a printed carton number "a-b"
CartonFirst(c) == TrailNat(BeforeSuffix(c))
CartonSecond(c) == TrailNat(c)

\* C22: overweight carton label: large-box position n has the label
\* "{set}-{container}" with set = ((n-1) // containers_per_set) + 1 and
\* container = ((n-1) % containers_per_set) + 1, both 1-based, container in
\* 1..containers_per_set; distinct positions get distinct labels (the label
\* determines n).
C22_OverweightCartonLabel ==
    pc = "overweight_large"
    => LET c == small_boxes_per_large_box.val IN
       /\ label.carton_no
              = NatToStr(((num - 1) \div c) + 1) \o <<"-">>
                    \o NatToStr(((num - 1) % c) + 1)
       /\ CartonFirst(label.carton_no) \in 1 .. TotalSets
       /\ CartonSecond(label.carton_no) \in 1 .. c
       /\ (CartonFirst(label.carton_no) - 1) * c
              + CartonSecond(label.carton_no) = num

\* C22 witness: 2 large boxes per set, position 4 is carton "2-2"
C22_Witness ==
    /\ pc = "overweight_large" /\ num = 4
    /\ small_boxes_per_large_box.val = 2
    /\ label.carton_no = <<"2", "-", "2">>

(***************************************************************************)
(* Claims about the shared processor instances (checked under SpecShared). *)
(***************************************************************************)
\* the result of an operation called alone, from its arguments only
ResultAlone(op, a) ==
    CASE op = "calculate_multi_level_quantities" ->
             SplitCalculateMultiLevelQuantities(a.total_pieces,
                 a.pieces_per_box, a.boxes_per_small_box,
                 PyInt(a.small_boxes_per_large_box))
      [] op = "generate_overweight_serial_range" ->
             generate_overweight_serial_range(a.base_number, a.set_num,
                 a.box_in_set, a.boxes_per_set, a.boxes_per_large_box)
      [] OTHER -> Return(parse_complex_serial_format(a.serial_number))

C23_LaterCallsReturnFirstValue ==
    \A t \in DOMAIN threads :
        (threads[t].pc = "done" /\ threads[t].first # NoResult)
            => threads[t].result = threads[t].first

\* C23: no step of a quantity, parsing or serial operation changes an
\* attribute of a module-level processor instance, and a call repeated with
\* the same arguments, after any calls of the other thread, returns the value
\* its first call returned.
C23_OperationsLeaveInstancesAlone ==
    [][instances' = instances]_vars /\ [](C23_LaterCallsReturnFirstValue)

\* a repeated call has returned after the other thread has completed a call too
C23_Witness ==
    \E t \in DOMAIN threads : \E u \in DOMAIN threads :
        /\ t # u
        /\ threads[t].pc = "done" /\ threads[t].first # NoResult
        /\ threads[t].op = "generate_overweight_serial_range"
        /\ threads[u].first # NoResult
        /\ threads[u].op = "calculate_multi_level_quantities"

\* C24: however the steps of two concurrent invocations on the shared
\* instances interleave, each returns the result it returns when called alone.
C24_InterleavedCallsReturnResultAlone ==
    \A t \in DOMAIN threads :
        threads[t].pc = "done"
            => threads[t].result = ResultAlone(threads[t].op, threads[t].args)

\* both invocations overlapped and both are complete, a quantity call and a
\* serial-range call that went through its loop
C24_Witness ==
    \E t \in DOMAIN threads : \E u \in DOMAIN threads :
        /\ threads[t].pc = "done" /\ threads[t].overlapped
        /\ threads[u].pc = "done" /\ threads[u].overlapped
        /\ threads[t].op = "calculate_multi_level_quantities"
        /\ threads[u].op = "generate_overweight_serial_range"
        /\ threads[u].args.box_in_set >= 2


(***************************************************************************)
(* Claims about the nested labels (checked under SpecLabels).              *)
(***************************************************************************)
\* C25: for a start serial PREFIX<main>-<suffix>, whatever the suffix, the
\* first and last serial printed on a nested small-box or large-box label are
\* the serials generate_box_serial_number (unit boxes_per_small_box) gives to
\* the first and the last box of that container after clamping.
C25_NestedRangeEndsAreBoxSerials ==
    (pc \in {"nested_small", "nested_large"} /\ MainSuffixPos(base_number) # 0)
    => /\ RangeFirst(label.serial) =
              generate_box_serial_number(base_number, label.start_item,
                                         boxes_per_small_box)
       /\ RangeLast(label.serial) =
              generate_box_serial_number(base_number, label.end_item,
                                         boxes_per_small_box)

\* C26: the carton range "start-end" printed for large box L, nested and
\* split, never names a small box above total_small_boxes, and for the last
\* large box its end is total_small_boxes.
C26_CartonRangeWithinSmallBoxes ==
    pc \in {"nested_large", "split_large"}
    => /\ CartonSecond(label.carton_no) <= TotalSmallBoxes
       /\ (num = TotalLargeBoxes
              => CartonSecond(label.carton_no) = TotalSmallBoxes)

(***************************************************************************)
(* Claims about the nested request without a small-box level (SpecRequest).*)
(***************************************************************************)
\* C27: in normal mode with no small-box level and valid ratios, the
\* large-box label file holds as many labels as the two-level total
\* ceil(total_boxes / boxes_per_small_box) that _create_normal_pdfs computes,
\* whatever the third ratio is.
C27_TwoLevelLargeBoxLabelCount ==
    (pc = "nested_create_multi_level_pdfs" /\ ~args.has_small_box
        /\ boxes_per_small_box >= 1 /\ small_boxes_per_large_box.val >= 1)
    => /\ Returned(result)
       /\ result.total_large_boxes = MathCeilDiv(TotalBoxes, boxes_per_small_box)
       /\ result.labels["large_box"] = result.total_large_boxes

(***************************************************************************)
(* Claims about the overweight allocation of every container (SpecLabels). *)
(***************************************************************************)
\* C30: for boxes_per_set >= 1 and containers_per_set >= 1, also when
\* containers_per_set > boxes_per_set, every position 1..containers_per_set
\* of a set is allocated at least one box, and the start suffix of a printed
\* overweight range is not above its end suffix.
C30_EveryContainerHoldsABox ==
    pc = "overweight_large"
    => /\ \A k \in 1 .. small_boxes_per_large_box.val : OverweightAlloc(k) >= 1
       /\ label.start_box_in_set <= label.end_box_in_set
       /\ (label.matched
              => SerialSuffix(RangeFirst(label.serial))
                     <= SerialSuffix(RangeLast(label.serial)))

(***************************************************************************)
(* Claims about the regular box labels (SpecLabels).                       *)
(***************************************************************************)
\* C28: for every start serial containing a digit, the range printed on the
\* regular small-box label k is "first-last" where first and last are the
\* serials printed on the box labels of the first and the last box of small
\* box k.
C28_SmallBoxRangeEndsAreBoxLabels ==
    (pc = "regular_small" /\ HasDigit(base_number))
    => label.serial = RegularBoxLabelOf(label.start_item).serial \o <<"-">>
                          \o RegularBoxLabelOf(label.end_item).serial

(***************************************************************************)
(* Claims about the serial of each box (SpecLabels).                       *)
(***************************************************************************)
\* the serial each numbering gives to box m of the request
BoxSerial(loop, m) ==
    CASE loop = "linear_number" -> LinearSerialNumberLabel(m).serial
      [] loop = "split_number" -> SplitSerialNumberLabel(m).serial
      [] OTHER -> NestedSerialNumberLabel(m).serial

\* C29: under the linear, the split grouped and the nested grouped numbering
\* (any start suffix), the serial printed for a box is the serial of no other
\* box in 1..total_boxes.
C29_SerialsUniquePerBox ==
    pc \in {"linear_number", "split_number", "nested_number"}
    => /\ label.serial = BoxSerial(pc, num)
       /\ \A m \in 1 .. TotalBoxes :
              m # num => BoxSerial(pc, m) # label.serial

\* a nested serial past the first main number, from a start suffix other than
\* 01, with several boxes to a main number
C29_Witness ==
    /\ pc = "nested_number"
    /\ boxes_per_small_box >= 2
    /\ num > boxes_per_small_box
    /\ parse_serial_number_format(base_number).suffix = 3
    /\ label.serial # BoxSerial("nested_number", num - boxes_per_small_box)

====
